---- MODULE Spec2Model ----
(***************************************************************************)
(* A model of src/services/geminiService.ts: analyzeLessonPlanWithGemini,  *)
(* the single async function that checks the API key, issues one           *)
(* generateContent request, parses the textual reply as JSON and gives     *)
(* every objective entry a locally generated id.                           *)
(*                                                                         *)
(* JavaScript values are tagged records: t is the type tag.  A call of the *)
(* function is a process with two synchronous segments, one before and one *)
(* after the await; the event loop runs each segment without interleaving. *)
(***************************************************************************)
EXTENDS FiniteSets, Integers, Sequences, TLC

(* ------------------------------ bounds --------------------------------- *)

\* Number of calls of analyzeLessonPlanWithGemini in a session.
NCalls == 2
\* Most objective entries (over the three lists) a remote reply carries.
MaxObjectives == 3
\* Date.now() reads one of MaxClock + 1 consecutive millisecond values.
MaxClock == 1

Calls == 1..NCalls
\* The clock crosses a power of ten, so timestamps of both widths are read.
Clock == 9..(9 + MaxClock)

(* --------------------------- JavaScript values ------------------------- *)

Undefined == [t |-> "undefined"]
Null == [t |-> "null"]
Bool(b) == [t |-> "bool", b |-> b]
Num(n) == [t |-> "num", n |-> n]
Str(s) == [t |-> "str", s |-> s]
\* An array: its elements a, and p, the named properties assigned to it.
Arr(a) == [t |-> "arr", a |-> a, p |-> <<>>]
\* An object: o maps each own property name to its value.
Obj(o) == [t |-> "obj", o |-> o]

\* The value a function leaves a local at before it is assigned.
None == [t |-> "none"]

\* ToBoolean: what `!v` and `v || w` test.
Truthy(v) ==
    CASE v.t = "undefined" -> FALSE
      [] v.t = "null" -> FALSE
      [] v.t = "bool" -> v.b
      [] v.t = "num" -> v.n # 0
      [] v.t = "str" -> v.s # ""
      [] v.t = "arr" -> TRUE
      [] v.t = "obj" -> TRUE

\* Own named properties of a value that a property read or a spread sees.
Props(v) ==
    CASE v.t = "obj" -> v.o
      [] v.t = "arr" -> v.p
      [] OTHER -> <<>>

\* v.k for a value v that is neither null nor undefined (a primitive has no
\* such property; the prototype chain has none of the names read here).
Get(v, k) == IF k \in DOMAIN Props(v) THEN Props(v)[k] ELSE Undefined

\* f with key k set to x.
Put(f, k, x) == [j \in (DOMAIN f) \cup {k} |-> IF j = k THEN x ELSE f[j]]

\* v.k = x for an object or an array v.
SetProp(v, k, x) ==
    IF v.t = "obj" THEN [v EXCEPT !.o = Put(v.o, k, x)]
    ELSE [v EXCEPT !.p = Put(v.p, k, x)]

\* A completion of an evaluation: a value, or a thrown exception.
Return(v) == [c |-> "return", v |-> v]
Throw(name) == [c |-> "throw", name |-> name]

(* ---------------------------- the environment -------------------------- *)

\* The global `process`: absent in a browser, or an object whose env may
\* or may not carry API_KEY.
ProcessValues ==
    { Undefined,
      Obj([env |-> Obj(<<>>)]),
      Obj([env |-> Obj([API_KEY |-> Str("")])]),
      Obj([env |-> Obj([API_KEY |-> Str("key")])]) }

\* Mutant of NoCredential: the check without its `!process.env.API_KEY` half.
NoCredential_ProcessOnly(p) == p.t = "undefined"

\* typeof process === 'undefined' || !process.env.API_KEY
NoCredential(p) ==
    \/ p.t = "undefined"
    \/ ~Truthy(Get(Get(p, "env"), "API_KEY"))

NoKeyLog == "API_KEY is not defined. Please ensure it is set in your deployment environment variables."
\* The Arabic user-facing message of line 13, transliterated.
NoKeyMessage == "lam yutam aleuthur ealaa miftah alwajihat albarmajia (API Key)"
GenericMessage == "Failed to analyze lesson plan with Gemini."
CatchLog == "Error calling Gemini API:"

Error(message) == [name |-> "Error", message |-> message]

(* --------------------------- the remote reply -------------------------- *)

\* The text of a reply is kept as the document it spells: either characters
\* that are no JSON document, or the value the JSON document denotes.
\* Surrounding whitespace is not kept, so trim() leaves a text as it is.
NotJson(chars) == [t |-> "str", json |-> FALSE, chars |-> chars]
Json(value) == [t |-> "str", json |-> TRUE, value |-> value]

\* response.text.trim(): response.text is undefined when the reply has no
\* text part, and reading trim of undefined throws.
Trim(text) == IF text.t = "undefined" THEN Throw("TypeError") ELSE Return(text)

\* JSON.parse(jsonString)
JSONParse(text) ==
    IF text.json THEN Return(text.value) ELSE Throw("SyntaxError")

ObjectiveFields == <<"cognitiveObjectives", "psychomotorObjectives", "affectiveObjectives">>
IdPrefix == <<"cog", "psy", "aff">>

\* Objective entries as the remote service may send them: with an id of its
\* own (one that looks like a local id), without one, or not an object.
WithId ==
    Obj([id |-> Str("cog-9-1"), level |-> Str("apply"),
         formulation |-> Str("recites the poem"), evaluation |-> Str("recite it")])
Plain ==
    Obj([level |-> Str("remember"), formulation |-> Str("names the poet"),
         evaluation |-> Str("who wrote it?")])
EntryAt(j) ==
    CASE j % 4 = 1 -> WithId
      [] j % 4 = 2 -> Plain
      [] j % 4 = 3 -> Null
      [] j % 4 = 0 -> WithId
EntryList(n) == Arr([j \in 1..n |-> EntryAt(j)])
\* Lists whose entries are no objects: a number, an array, a boolean.
OddAt(j) ==
    CASE j % 3 = 1 -> Num(3)
      [] j % 3 = 2 -> Arr(<<Str("a")>>)
      [] j % 3 = 0 -> Bool(TRUE)
OddList(n) == Arr([j \in 1..n |-> OddAt(j)])
Lists == {EntryList(n) : n \in 0..MaxObjectives} \cup {OddList(n) : n \in 1..MaxObjectives}

\* What a reply may carry under an objective field, other than a list.
Absent == [t |-> "absent"]
NonLists ==
    {Absent, Null, Bool(FALSE), Num(0), Str(""), Str("x"), Num(7), Bool(TRUE), Obj(<<>>)}

\* The fields of the reply the post-processing does not touch.
OtherFields ==
    [lessonTitle |-> Str("Poetry"), teachingAids |-> Arr(<<Str("whiteboard")>>)]

\* An object reply with the given content (or Absent) under each objective field.
ReplyObject(choice) ==
    LET present == {i \in 1..3 : choice[i] # Absent}
        keys == (DOMAIN OtherFields) \cup {ObjectiveFields[i] : i \in present}
    IN  Obj([k \in keys |->
              IF k \in DOMAIN OtherFields THEN OtherFields[k]
              ELSE choice[CHOOSE i \in present : ObjectiveFields[i] = k]])

FieldChoices ==
    {c \in [1..3 -> NonLists \cup Lists] :
        LET n(i) == IF c[i].t = "arr" THEN Len(c[i].a) ELSE 0
        IN  n(1) + n(2) + n(3) <= MaxObjectives}

\* JSON documents whose top-level value is no object.
TopLevelValues == {Null, Num(5), Str("x"), Bool(TRUE), Arr(<<>>), Arr(<<Plain>>)}

\* response.text of every reply the remote service may resolve with: no text,
\* text that is no JSON, and JSON documents of every shape above.
Replies ==
    {Undefined, NotJson(""), NotJson("Sorry, I cannot help with that.")}
    \cup {Json(v) : v \in TopLevelValues}
    \cup {Json(ReplyObject(c)) : c \in FieldChoices}

(* --------------------------- post-processing --------------------------- *)

\* Mutant of ObjectiveId: the id without the entry's index.
ObjectiveId_NoIndex(prefix, now, i) == prefix \o "-" \o ToString(now)

\* `${prefix}-${Date.now()}-${i}`
ObjectiveId(prefix, now, i) ==
    prefix \o "-" \o ToString(now) \o "-" \o ToString(i)

\* The properties {...o} copies from o.  (A string with characters spreads
\* to its indexed characters; no reply here has one as a list entry.)
SpreadProps(o) ==
    CASE o.t = "obj" -> o.o
      [] o.t = "arr" ->
            LET idx == {ToString(j - 1) : j \in 1..Len(o.a)}
            IN  [k \in idx \cup DOMAIN o.p |->
                    IF k \in DOMAIN o.p THEN o.p[k]
                    ELSE o.a[CHOOSE j \in 1..Len(o.a) : ToString(j - 1) = k]]
      [] o.t \in {"undefined", "null", "bool", "num"} -> <<>>
      [] o.t = "str" /\ o.s = "" -> <<>>

\* Mutant of WithFreshId: ({id: ..., ...o}), where an id of the reply wins.
WithFreshId_RemoteWins(o, prefix, now, i) ==
    IF "id" \in DOMAIN SpreadProps(o) THEN Obj(SpreadProps(o))
    ELSE Obj(Put(SpreadProps(o), "id", Str(prefix \o "-" \o ToString(now) \o "-" \o ToString(i))))

\* ({...o, id: `${prefix}-${Date.now()}-${i}`}), i counting from 0
WithFreshId(o, prefix, now, i) ==
    Obj(Put(SpreadProps(o), "id", Str(ObjectiveId(prefix, now, i))))

\* list.map((o, i) => ({...o, id: ...})); the j-th callback reads ts[base + j]
\* from the clock.
MapObjectives(list, prefix, ts, base) ==
    Arr([j \in 1..Len(list.a) |-> WithFreshId(list.a[j], prefix, ts[base + j], j - 1)])

\* The number of entries the map over parsed[field] visits.
Visited(parsed, field) ==
    LET x == Get(parsed, field)
    IN  IF x.t = "arr" THEN Len(x.a) ELSE 0

\* Mutant of AssignObjectives: a field the reply lacks is left alone
\* (if (parsedResult.f) parsedResult.f = parsedResult.f.map(...)).
AssignObjectives_SkipsMissing(parsed, k, ts, base) ==
    IF parsed.t \in {"null", "undefined"} THEN Throw("TypeError")
    ELSE LET x == Get(parsed, ObjectiveFields[k])
         IN  IF ~Truthy(x) THEN Return(parsed)
             ELSE IF x.t # "arr" THEN Throw("TypeError")
             ELSE IF parsed.t \notin {"obj", "arr"} THEN Throw("TypeError")
             ELSE Return(SetProp(parsed, ObjectiveFields[k],
                                 [t |-> "arr", p |-> <<>>,
                                  a |-> [j \in 1..Len(x.a) |->
                                           Obj(Put(SpreadProps(x.a[j]), "id",
                                                   Str(IdPrefix[k] \o "-" \o ToString(ts[base + j])
                                                       \o "-" \o ToString(j - 1))))]]))

\* Mutant of AssignObjectives: only a list is mapped, anything else is kept
\* (if (Array.isArray(parsedResult.f)) ... else leave it).
AssignObjectives_KeepsNonList(parsed, k, ts, base) ==
    IF parsed.t \in {"null", "undefined"} THEN Throw("TypeError")
    ELSE LET x == Get(parsed, ObjectiveFields[k])
             y == IF Truthy(x) THEN x ELSE [t |-> "arr", a |-> <<>>, p |-> <<>>]
         IN  IF parsed.t \notin {"obj", "arr"} THEN Throw("TypeError")
             ELSE IF y.t # "arr" THEN Return(parsed)
             ELSE Return(SetProp(parsed, ObjectiveFields[k],
                                 [t |-> "arr", p |-> <<>>,
                                  a |-> [j \in 1..Len(y.a) |->
                                           Obj(Put(SpreadProps(y.a[j]), "id",
                                                   Str(IdPrefix[k] \o "-" \o ToString(ts[base + j])
                                                       \o "-" \o ToString(j - 1))))]]))

\* parsedResult.f = (parsedResult.f || []).map(...), for f the k-th objective
\* field: reading a property of null throws, calling map of a value that is
\* no array throws, and (module code is strict) so does assigning a property
\* of a primitive.
AssignObjectives(parsed, k, ts, base) ==
    IF parsed.t \in {"null", "undefined"} THEN Throw("TypeError")
    ELSE LET x == Get(parsed, ObjectiveFields[k])
             y == IF Truthy(x) THEN x ELSE Arr(<<>>)
         IN  IF y.t # "arr" THEN Throw("TypeError")
             ELSE IF parsed.t \notin {"obj", "arr"} THEN Throw("TypeError")
             ELSE Return(SetProp(parsed, ObjectiveFields[k],
                                 MapObjectives(y, IdPrefix[k], ts, base)))

\* Lines 75-77 in order; a throw skips the rest.
Normalize(parsed, ts) ==
    LET n1 == Visited(parsed, ObjectiveFields[1])
        n2 == Visited(parsed, ObjectiveFields[2])
        r1 == AssignObjectives(parsed, 1, ts, 0)
        r2 == IF r1.c = "throw" THEN r1 ELSE AssignObjectives(r1.v, 2, ts, n1)
        r3 == IF r2.c = "throw" THEN r2 ELSE AssignObjectives(r2.v, 3, ts, n1 + n2)
    IN  r3

\* The body of the try block after the await (lines 71-79).
AfterAwait(text, ts) ==
    LET jsonString == Trim(text)
        parsedResult == IF jsonString.c = "throw" THEN jsonString
                        ELSE JSONParse(jsonString.v)
    IN  IF parsedResult.c = "throw" THEN parsedResult
        ELSE Normalize(parsedResult.v, ts)

\* The clock reads the post-processing of a reply makes.
NumReads(text) ==
    IF text.t = "str" /\ text.json /\ text.value.t \in {"obj", "arr"}
    THEN Visited(text.value, ObjectiveFields[1])
         + Visited(text.value, ObjectiveFields[2])
         + Visited(text.value, ObjectiveFields[3])
    ELSE 0

\* The replies of a session of several calls: text that is no JSON, and
\* object replies with one entry in the first list, or one in the first list
\* and one in the second.
SessionReplies ==
    { NotJson("Sorry, I cannot help with that."),
      Json(ReplyObject(<<EntryList(1), Absent, Absent>>)),
      Json(ReplyObject(<<EntryList(1), EntryList(1), Absent>>)) }

(* ------------------------------- state --------------------------------- *)

VARIABLES
    process,    \* the global `process` of the runtime
    calls       \* per call of analyzeLessonPlanWithGemini: its record, below

vars == <<process, calls>>

\* A call that has not run yet.
\*   pc        notStarted, inFlight (suspended at the await), succeeded, failed
\*   observed  the `process` the credential check read
\*   requests  generateContent requests the call has issued
\*   response  what the await produced: the reply text, or Rejection
\*   returned  the value the promise fulfilled with
\*   thrown    the error the promise rejected with
\*   logged    the console.error lines of the call
NewCall ==
    [pc |-> "notStarted", observed |-> None, requests |-> 0, response |-> None,
     returned |-> None, thrown |-> None, logged |-> <<>>]

Rejection == [t |-> "rejection"]

\* Mutant of Caught: the catch block issues the request once more.
Caught_Retries(call, name) ==
    [call EXCEPT !.pc = "failed",
                 !.requests = @ + 1,
                 !.logged = Append(@, <<CatchLog, name>>),
                 !.thrown = [name |-> "Error", message |-> GenericMessage]]

\* Mutant of Caught: the catch block logs and rethrows the error it caught.
Caught_Rethrows(call, name) ==
    [call EXCEPT !.pc = "failed",
                 !.logged = Append(@, <<CatchLog, name>>),
                 !.thrown = [name |-> name, message |-> ""]]

\* The catch block (lines 81-84): log the caught error, throw the generic one.
Caught(call, name) ==
    [call EXCEPT !.pc = "failed",
                 !.logged = Append(@, <<CatchLog, name>>),
                 !.thrown = Error(GenericMessage)]

\* Lines 11-69, up to the await: the credential check, then the request.
Started(call, p) ==
    IF NoCredential(p)
    THEN [call EXCEPT !.pc = "failed",
                      !.observed = p,
                      !.logged = Append(@, <<NoKeyLog>>),
                      !.thrown = Error(NoKeyMessage)]
    ELSE [call EXCEPT !.pc = "inFlight",
                      !.observed = p,
                      !.requests = @ + 1]

\* The await resumes with a reply: lines 71-79, or the catch block.
Resolved(call, text, ts) ==
    LET r == AfterAwait(text, ts)
    IN  IF r.c = "return"
        THEN [call EXCEPT !.pc = "succeeded", !.response = text, !.returned = r.v]
        ELSE Caught([call EXCEPT !.response = text], r.name)

\* Mutant of Rejected: a failed request is answered with an empty plan.
Rejected_Recovers(call) ==
    [call EXCEPT !.pc = "succeeded",
                 !.response = Rejection,
                 !.logged = Append(@, <<CatchLog, "ApiError">>),
                 !.returned = Obj([k \in {ObjectiveFields[i] : i \in 1..3} |-> Arr(<<>>)])]

\* The await throws: generateContent rejected.
Rejected(call) == Caught([call EXCEPT !.response = Rejection], "ApiError")

(* ------------------------------ actions -------------------------------- *)

\* The caller invokes the function; it runs to the await or to the throw.
Call(c) ==
    /\ calls[c].pc = "notStarted"
    /\ calls' = [calls EXCEPT ![c] = Started(@, process)]
    /\ UNCHANGED process

\* Mutant of Resolve: the reply text is kept in a module-level variable that
\* every call writes on arrival and the first call to arrive never clears, so
\* a later call parses the text of an earlier one.
Resolve_SharedReply(c, texts) ==
    /\ calls[c].pc = "inFlight"
    /\ \E text \in texts :
          LET arrived == {d \in DOMAIN calls : calls[d].response.t = "str"}
              shared == IF arrived = {} THEN text
                        ELSE calls[CHOOSE d \in arrived : TRUE].response
          IN  \E ts \in [1..NumReads(shared) -> Clock] :
                 calls' = [calls EXCEPT ![c] =
                             [Resolved(@, shared, ts) EXCEPT !.response = text]]
    /\ UNCHANGED process

\* The remote service replies with one of `texts` and the call runs to its
\* end, reading the clock once per objective entry.
Resolve(c, texts) ==
    /\ calls[c].pc = "inFlight"
    /\ \E text \in texts :
          \E ts \in [1..NumReads(text) -> Clock] :
             calls' = [calls EXCEPT ![c] = Resolved(@, text, ts)]
    /\ UNCHANGED process

\* The request fails and the call runs to its end.
Reject(c) ==
    /\ calls[c].pc = "inFlight"
    /\ calls' = [calls EXCEPT ![c] = Rejected(@)]
    /\ UNCHANGED process

\* The deployment changes the environment.
SetEnv(p) ==
    /\ p # process
    /\ process' = p
    /\ UNCHANGED calls

Step(texts) ==
    \/ \E c \in DOMAIN calls : Call(c)
    \/ \E c \in DOMAIN calls : Resolve(c, texts)
    \/ \E c \in DOMAIN calls : Reject(c)
    \/ \E p \in ProcessValues : SetEnv(p)

\* One call, with every reply.
Init ==
    /\ process \in ProcessValues
    /\ calls = [c \in {1} |-> NewCall]

Next == Step(Replies)

Spec == Init /\ [][Next]_vars

\* A session of NCalls calls, whose requests are in flight together.
SessionInit ==
    /\ process \in ProcessValues
    /\ calls = [c \in Calls |-> NewCall]

SessionNext == Step(SessionReplies)

SessionSpec == SessionInit /\ [][SessionNext]_vars

(* ------------------------------ properties ----------------------------- *)

Terminal(call) == call.pc \in {"succeeded", "failed"}

\* The entries of the k-th objective list of a value (none when it is no list).
Entries(v, k) ==
    LET x == Get(v, ObjectiveFields[k])
    IN  IF x.t = "arr" THEN x.a ELSE <<>>

\* The places <<k, j>> of the objective entries of a value.
Slots(v) == UNION {{<<k, j>> : j \in 1..Len(Entries(v, k))} : k \in 1..3}

IdAt(v, slot) == Get(Entries(v, slot[1])[slot[2]], "id")

\* The ids of the objectives a call returned.
Ids(call) ==
    IF call.pc = "succeeded"
    THEN {IdAt(call.returned, slot) : slot \in Slots(call.returned)}
    ELSE {}

\* No credential is configured in environment p: there is no process object,
\* or its env has no API_KEY, or an empty one.
Unconfigured(p) ==
    \/ p = Undefined
    \/ /\ p.t = "obj"
       /\ \/ "API_KEY" \notin DOMAIN p.o.env.o
          \/ p.o.env.o.API_KEY = Str("")

\* The environment the call observed had no credential (had one).
SawNoCredential(call) == call.observed # None /\ Unconfigured(call.observed)
SawCredential(call) == call.observed # None /\ ~Unconfigured(call.observed)

EmptyKeyProcess == Obj([env |-> Obj([API_KEY |-> Str("")])])

\* C1: a call that finds no credential (process undefined, API_KEY missing or
\* empty) has failed with the error carrying the user-facing message, has
\* returned nothing, and has issued no request, in every state from then on.
C1_NoCredentialFailsWithoutRequest ==
    \A c \in DOMAIN calls :
        SawNoCredential(calls[c]) =>
            /\ calls[c].pc = "failed"
            /\ calls[c].thrown = Error(NoKeyMessage)
            /\ calls[c].requests = 0
            /\ calls[c].returned = None
            /\ calls[c].response = None

\* C1 witness: a call made while API_KEY is the empty string has failed.
C1_Witness ==
    \E c \in DOMAIN calls :
        calls[c].observed = EmptyKeyProcess /\ calls[c].pc = "failed"

\* C2: a call that found a credential has issued exactly one request, while
\* in flight and after it ended, whatever the outcome: no outcome issues a
\* second request.
C2_ExactlyOneRequest ==
    \A c \in DOMAIN calls :
        /\ SawCredential(calls[c]) => calls[c].requests = 1
        /\ calls[c].requests <= 1

\* C2 witness: a call has failed on a reply that is no JSON, with its one
\* request issued.
C2_Witness ==
    \E c \in DOMAIN calls :
        /\ calls[c].pc = "failed"
        /\ calls[c].response = NotJson("")
        /\ calls[c].requests = 1

\* C3: in every returned value, every objective entry has an id that is a
\* non-empty string, and the ids are pairwise distinct within each list and
\* across the three lists, whatever the clock read.
C3_IdsNonEmptyAndDistinct ==
    \A c \in DOMAIN calls :
        calls[c].pc = "succeeded" =>
            LET v == calls[c].returned
            IN  /\ \A s \in Slots(v) : IdAt(v, s).t = "str" /\ IdAt(v, s).s # ""
                /\ \A s1, s2 \in Slots(v) : s1 # s2 => IdAt(v, s1) # IdAt(v, s2)

\* C3 witness: a returned value with two entries in one list and one in
\* another, all stamped in the same millisecond.
C3_Witness ==
    \E c \in DOMAIN calls :
        /\ calls[c].pc = "succeeded"
        /\ Slots(calls[c].returned) = {<<1, 1>>, <<1, 2>>, <<2, 1>>}
        /\ IdAt(calls[c].returned, <<1, 1>>) = Str("cog-9-0")
        /\ IdAt(calls[c].returned, <<1, 2>>) = Str("cog-9-1")
        /\ IdAt(calls[c].returned, <<2, 1>>) = Str("psy-9-0")

\* C4: every returned value has each of the three objective fields, and a
\* field the reply omitted is the empty list in it.
C4_OmittedFieldsAreEmptyLists ==
    \A c \in DOMAIN calls :
        calls[c].pc = "succeeded" =>
            \A k \in 1..3 :
                /\ ObjectiveFields[k] \in DOMAIN Props(calls[c].returned)
                /\ ObjectiveFields[k] \notin DOMAIN Props(calls[c].response.value)
                     => Get(calls[c].returned, ObjectiveFields[k]) = Arr(<<>>)

\* C4 witness: a reply object that omits the first and the third list and
\* carries entries in the second has been returned.
C4_Witness ==
    \E c \in DOMAIN calls :
        /\ calls[c].pc = "succeeded"
        /\ calls[c].response.value.t = "obj"
        /\ ObjectiveFields[1] \notin DOMAIN calls[c].response.value.o
        /\ ObjectiveFields[3] \notin DOMAIN calls[c].response.value.o
        /\ Len(Entries(calls[c].returned, 2)) = 2
        /\ Get(calls[c].returned, ObjectiveFields[1]) = Arr(<<>>)

IsNotJson(response) == response.t = "str" /\ ~response.json

\* An error that tells a response-format failure from the other failures.
IdentifiesFormatFailure(e) ==
    e # None /\ e # Error(NoKeyMessage) /\ e # Error(GenericMessage)

\* C5 as claimed: a reply that is no JSON fails the call with an error that
\* identifies a response-format failure, and nothing is returned.
C5_Original ==
    \A c \in DOMAIN calls :
        IsNotJson(calls[c].response) =>
            /\ calls[c].pc = "failed"
            /\ IdentifiesFormatFailure(calls[c].thrown)
            /\ calls[c].returned = None

\* C5 as amended: a reply that is no JSON fails the call with the generic
\* analysis failure, the error a remote failure raises too; the SyntaxError is
\* only logged, and nothing is returned.
C5_NotJsonFailsGenerically ==
    \A c \in DOMAIN calls :
        IsNotJson(calls[c].response) =>
            /\ calls[c].pc = "failed"
            /\ calls[c].thrown = Error(GenericMessage)
            /\ calls[c].logged = <<<<CatchLog, "SyntaxError">>>>
            /\ calls[c].returned = None

\* C5 witness: a call has ended on a reply that is no JSON.
C5_Witness ==
    \E c \in DOMAIN calls :
        /\ calls[c].response = NotJson("Sorry, I cannot help with that.")
        /\ Terminal(calls[c])

\* C6: when the request rejects, the call has failed with the generic
\* analysis failure, the caught error is logged and not raised, and nothing is
\* returned.
C6_RejectionPropagates ==
    \A c \in DOMAIN calls :
        calls[c].response = Rejection =>
            /\ calls[c].pc = "failed"
            /\ calls[c].thrown = Error(GenericMessage)
            /\ calls[c].logged = <<<<CatchLog, "ApiError">>>>
            /\ calls[c].returned = None

\* C6 witness: a call whose request rejected has ended.
C6_Witness ==
    \E c \in DOMAIN calls : calls[c].response = Rejection /\ Terminal(calls[c])

\* C7 as claimed: no id returned by one call is returned by another call.
C7_Original ==
    \A c, d \in DOMAIN calls :
        c # d => Ids(calls[c]) \cap Ids(calls[d]) = {}

\* The outcome of a call that runs alone, from what it observed and received.
SoloRun(p, response, ts) ==
    IF NoCredential(p) THEN Started(NewCall, p)
    ELSE IF response = Rejection THEN Rejected(Started(NewCall, p))
    ELSE Resolved(Started(NewCall, p), response, ts)

\* C8: every ended call of a session is in the state a call running alone
\* ends in from the same environment and the same reply, for some clock
\* readings: nothing of another call enters its outcome.
C8_OutcomeIsOwn ==
    \A c \in DOMAIN calls :
        Terminal(calls[c]) =>
            \E ts \in [1..NumReads(calls[c].response) -> Clock] :
                calls[c] = SoloRun(calls[c].observed, calls[c].response, ts)

\* C8 witness: two calls of a session have ended differently, the one on a
\* reply that is no JSON and the other with a value.
C8_Witness ==
    \E c, d \in DOMAIN calls :
        /\ calls[c].pc = "failed" /\ IsNotJson(calls[c].response)
        /\ calls[d].pc = "succeeded" /\ Slots(calls[d].returned) # {}

\* The properties of an entry other than its id.
Rest(entry) ==
    LET f == SpreadProps(entry) IN [k \in (DOMAIN f) \ {"id"} |-> f[k]]

\* C9: a returned value is the parsed reply with only the objective lists
\* replaced: every other property (and element) is unchanged, each
\* list keeps its length and order, each entry keeps everything but its id,
\* and its id is the local one that ends in the entry's position, whatever id
\* the reply gave.
C9_OnlyIdsChange ==
    \A c \in DOMAIN calls :
        calls[c].pc = "succeeded" =>
            LET in == calls[c].response.value
                out == calls[c].returned
                fields == {ObjectiveFields[k] : k \in 1..3}
            IN  /\ out.t = in.t
                /\ in.t = "arr" => out.a = in.a
                /\ DOMAIN Props(out) = (DOMAIN Props(in)) \cup fields
                /\ \A f \in (DOMAIN Props(in)) \ fields : Props(out)[f] = Props(in)[f]
                /\ \A k \in 1..3 :
                     /\ Len(Entries(out, k)) = Len(Entries(in, k))
                     /\ \A j \in 1..Len(Entries(in, k)) :
                          /\ Rest(Entries(out, k)[j]) = Rest(Entries(in, k)[j])
                          /\ \E now \in Clock :
                               Get(Entries(out, k)[j], "id") =
                                 Str(IdPrefix[k] \o "-" \o ToString(now) \o "-" \o ToString(j - 1))

\* C9 witness: a reply whose first entry came with an id of its own has been
\* returned with the other fields present.
C9_Witness ==
    \E c \in DOMAIN calls :
        /\ calls[c].pc = "succeeded"
        /\ Len(Entries(calls[c].response.value, 1)) = 2
        /\ Get(Entries(calls[c].response.value, 1)[1], "id") = Str("cog-9-1")
        /\ Get(Entries(calls[c].returned, 1)[1], "id") = Str("cog-10-0")
        /\ Get(calls[c].returned, "lessonTitle") = Str("Poetry")

\* The reply is JSON that the post-processing cannot handle.
Unprocessable(response) ==
    /\ response.t = "str" /\ response.json
    /\ \/ response.value = Null
       \/ \E k \in 1..3 :
            LET x == Get(response.value, ObjectiveFields[k])
            IN  Truthy(x) /\ x.t # "arr"

\* C10: a JSON reply that is null, or has a truthy objective field that is no
\* list, fails the call with the generic analysis failure and returns nothing;
\* and no returned value has an objective field that is not a list.
C10_UnprocessableFailsGenerically ==
    \A c \in DOMAIN calls :
        /\ Unprocessable(calls[c].response) =>
              /\ calls[c].pc = "failed"
              /\ calls[c].thrown = Error(GenericMessage)
              /\ calls[c].returned = None
        /\ calls[c].returned # None =>
              \A k \in 1..3 : Get(calls[c].returned, ObjectiveFields[k]).t = "arr"

\* C10 witness: a reply whose first list has entries and whose second
\* objective field is a string has ended the call.
C10_Witness ==
    \E c \in DOMAIN calls :
        /\ Terminal(calls[c])
        /\ calls[c].response.t = "str" /\ calls[c].response.json
        /\ Len(Entries(calls[c].response.value, 1)) = 1
        /\ Get(calls[c].response.value, ObjectiveFields[2]) = Str("x")

====
